---- MODULE Spec2Model ----
(***************************************************************************)
(* flowtask: a dependency-aware task manager (Python + SQLite).            *)
(*                                                                         *)
(* The store (db.py: tables tasks and deps, the AUTOINCREMENT counter),    *)
(* the commands that change it (cli.py), the ready query, and the graph    *)
(* engine (graph.py: build_adjacency, has_path, would_create_cycle,        *)
(* topo_sort).                                                             *)
(***************************************************************************)
EXTENDS Integers, Sequences, FiniteSets, TLC

VARIABLES
    tasks,   \* table tasks: id -> [status, priority, due]   (due: TEXT or NULL)
    deps,    \* table deps: set of <<task_id, depends_on_id>> (PRIMARY KEY)
    seq,     \* sqlite_sequence of tasks (AUTOINCREMENT): largest id ever used
    last,    \* the last operation: [op, rc, a, b, doc]
    gEdges,  \* graph engine: the edge list handed to a call
    gCall,   \* graph engine: the last call and what it returned
    procs    \* depend commands running side by side: position and locals of each

vars == <<tasks, deps, seq, last, gEdges, gCall, procs>>
store == <<tasks, deps, seq>>

-----------------------------------------------------------------------------
(* Bounds *)

\* ids the store hands out (add_task stops at MaxTasks rows ever created)
MaxTasks == 2
\* length of the edge list handed to the graph engine
MaxEdges == 3

Ids == 1..MaxTasks
\* node ids of the graph engine's inputs
Nodes == {1, 2, 3}

-----------------------------------------------------------------------------
(* Values *)

\* SQL NULL / Python None
Null == <<>>

Max(a, b) == IF a >= b THEN a ELSE b

\* Set iteration order: a Python set is iterated in an order the language does
\* not fix; it is modelled by a ranking `ord` (a permutation of the ids) that
\* every iteration within one call follows.
Perms(S) == {f \in [1..Cardinality(S) -> S] : \A x \in S : \E i \in DOMAIN f : f[i] = x}

IterSeq(S, ord) == SelectSeq(ord, LAMBDA x : x \in S)

\* CPython's order for a set of small ints (hash(i) = i): ascending
HashOrder(S) == CHOOSE f \in Perms(S) : \A i, j \in DOMAIN f : i < j => f[i] < f[j]

-----------------------------------------------------------------------------
(* Graph engine: graph.py *)

\* adj[k].add(v) on a defaultdict(set): the key is created when missing
AdjAdd(adj, k, v) ==
    [n \in DOMAIN adj \cup {k} |->
        IF n = k THEN (IF k \in DOMAIN adj THEN adj[k] ELSE {}) \cup {v}
        ELSE adj[n]]

\* adj[k] = adj[k] on a defaultdict(set): creates the key with an empty set
AdjTouch(adj, k) ==
    [n \in DOMAIN adj \cup {k} |-> IF n \in DOMAIN adj THEN adj[n] ELSE {}]

\* faulty variant of BuildAdjFrom: a node that is only a prerequisite gets no key
RECURSIVE BuildAdjFrom_NoTouch(_, _, _)
BuildAdjFrom_NoTouch(edges, i, adj) ==
    IF i > Len(edges) THEN adj
    ELSE BuildAdjFrom_NoTouch(edges, i + 1, AdjAdd(adj, edges[i][1], edges[i][2]))

\* the for loop of build_adjacency from the i-th edge on
RECURSIVE BuildAdjFrom(_, _, _)
BuildAdjFrom(edges, i, adj) ==
    IF i > Len(edges) THEN adj
    ELSE LET task_id == edges[i][1]
             prereq_id == edges[i][2]
             a1 == AdjAdd(adj, task_id, prereq_id)
             a2 == IF prereq_id \notin DOMAIN a1 THEN AdjTouch(a1, prereq_id) ELSE a1
         IN BuildAdjFrom(edges, i + 1, a2)

build_adjacency(edges) == BuildAdjFrom(edges, 1, [n \in {} |-> {}])

\* adj.get(node, set()): the value read
AdjGet(adj, node) == IF node \in DOMAIN adj THEN adj[node] ELSE {}

\* adj.get(node, set()): the mapping after the read.  dict.get never inserts
\* the key, on a defaultdict as on a dict.
AdjAfterGet(adj, node) == adj

\* faulty variant of HasPathLoop: the neighbours are tested but never pushed
HasPathLoop_NoPush(adj, target, stack, visited, ord) ==
    IF stack = <<>> THEN [ret |-> FALSE, adj |-> adj]
    ELSE [ret |-> target \in AdjGet(adj, stack[Len(stack)]), adj |-> adj]

\* the while loop of has_path: stack is a list (pop takes its last element);
\* the result is the value returned and the mapping as the loop leaves it
RECURSIVE HasPathLoop(_, _, _, _, _)
HasPathLoop(adj, target, stack, visited, ord) ==
    IF stack = <<>> THEN [ret |-> FALSE, adj |-> adj]
    ELSE LET node == stack[Len(stack)]
             rest == SubSeq(stack, 1, Len(stack) - 1)
         IN IF node \in visited THEN HasPathLoop(adj, target, rest, visited, ord)
            ELSE LET seen == visited \cup {node}
                     nbrs == AdjGet(adj, node)
                     adj1 == AdjAfterGet(adj, node)
                 IN IF target \in nbrs THEN [ret |-> TRUE, adj |-> adj1]
                    ELSE HasPathLoop(adj1, target,
                                     rest \o IterSeq(nbrs \ seen, ord), seen, ord)

\* faulty variant of HasPathCall: start = target is not answered at once, the
\* search looks for a way back to start
HasPathCall_NoZeroHop(adj, start, target, ord) ==
    HasPathLoop(adj, target, <<start>>, {}, ord)

\* one call of has_path: the value returned and the mapping after the call
HasPathCall(adj, start, target, ord) ==
    IF start = target THEN [ret |-> TRUE, adj |-> adj]
    ELSE HasPathLoop(adj, target, <<start>>, {}, ord)

has_path(adj, start, target, ord) == HasPathCall(adj, start, target, ord).ret

\* faulty variant of would_create_cycle: the search runs from task_id to prereq_id
would_create_cycle_Swapped(edges, task_id, prereq_id, ord) ==
    IF task_id = prereq_id THEN TRUE
    ELSE has_path(build_adjacency(edges), task_id, prereq_id, ord)

\* faulty variant of would_create_cycle: nodes unknown to the graph are waved through
\* before the self-dependency test
would_create_cycle_UnknownFirst(edges, task_id, prereq_id, ord) ==
    LET adj == build_adjacency(edges)
    IN IF task_id \notin DOMAIN adj \/ prereq_id \notin DOMAIN adj THEN FALSE
       ELSE IF task_id = prereq_id THEN TRUE
       ELSE has_path(adj, prereq_id, task_id, ord)

would_create_cycle(edges, task_id, prereq_id, ord) ==
    IF task_id = prereq_id THEN TRUE
    ELSE has_path(build_adjacency(edges), prereq_id, task_id, ord)

\* faulty variant of TopoScan: only the dependent is tested against tasks_set, an
\* edge to a prerequisite outside it is counted
RECURSIVE TopoScan_OnlyTask(_, _, _, _, _)
TopoScan_OnlyTask(tasks_set, edges, i, p2d, indegree) ==
    IF i > Len(edges) THEN [prereq_to_dependents |-> p2d, indegree |-> indegree]
    ELSE LET task == edges[i][1]
             prereq == edges[i][2]
         IN IF task \notin tasks_set
            THEN TopoScan_OnlyTask(tasks_set, edges, i + 1, p2d, indegree)
            ELSE TopoScan_OnlyTask(tasks_set, edges, i + 1,
                                   AdjAdd(p2d, prereq, task),
                                   [indegree EXCEPT ![task] = @ + 1])

\* topo_sort, first loop: the edges inside tasks_set, inverted, and the indegrees
RECURSIVE TopoScan(_, _, _, _, _)
TopoScan(tasks_set, edges, i, p2d, indegree) ==
    IF i > Len(edges) THEN [prereq_to_dependents |-> p2d, indegree |-> indegree]
    ELSE LET task == edges[i][1]
             prereq == edges[i][2]
         IN IF task \notin tasks_set \/ prereq \notin tasks_set
            THEN TopoScan(tasks_set, edges, i + 1, p2d, indegree)
            ELSE TopoScan(tasks_set, edges, i + 1,
                          AdjAdd(p2d, prereq, task),
                          [indegree EXCEPT ![task] = @ + 1])

\* topo_sort, the while loop over the deque q
RECURSIVE KahnLoop(_, _, _, _, _)
KahnLoop(q, out, indegree, p2d, ord) ==
    IF q = <<>> THEN out
    ELSE LET n == Head(q)
             ds == AdjGet(p2d, n)
             ind2 == [t \in DOMAIN indegree |->
                         IF t \in ds THEN indegree[t] - 1 ELSE indegree[t]]
             freed == SelectSeq(IterSeq(ds, ord), LAMBDA d : ind2[d] = 0)
         IN KahnLoop(Tail(q) \o freed, Append(out, n), ind2, p2d, ord)

\* faulty variant of topo_sort: the relation is not inverted (dependents come first)
topo_sort_NotInverted(tasks_in, edges, ord) ==
    LET tasks_set == tasks_in
        rev == [i \in DOMAIN edges |-> <<edges[i][2], edges[i][1]>>]
        sc == TopoScan(tasks_set, rev, 1, [n \in {} |-> {}], [t \in tasks_set |-> 0])
        q0 == SelectSeq(IterSeq(tasks_set, ord), LAMBDA t : sc.indegree[t] = 0)
        out == KahnLoop(q0, <<>>, sc.indegree, sc.prereq_to_dependents, ord)
    IN IF Len(out) # Cardinality(tasks_set)
       THEN [ok |-> FALSE, out |-> <<>>]
       ELSE [ok |-> TRUE, out |-> out]

\* faulty variant of topo_sort: the length test is missing, a partial order is returned
topo_sort_NoLengthCheck(tasks_in, edges, ord) ==
    LET tasks_set == tasks_in
        sc == TopoScan(tasks_set, edges, 1, [n \in {} |-> {}], [t \in tasks_set |-> 0])
        q0 == SelectSeq(IterSeq(tasks_set, ord), LAMBDA t : sc.indegree[t] = 0)
        out == KahnLoop(q0, <<>>, sc.indegree, sc.prereq_to_dependents, ord)
    IN [ok |-> TRUE, out |-> out]

\* [ok |-> FALSE] is the ValueError("Graph has a cycle (topo_sort failed).")
topo_sort(tasks_in, edges, ord) ==
    LET tasks_set == tasks_in
        sc == TopoScan(tasks_set, edges, 1, [n \in {} |-> {}], [t \in tasks_set |-> 0])
        q0 == SelectSeq(IterSeq(tasks_set, ord), LAMBDA t : sc.indegree[t] = 0)
        out == KahnLoop(q0, <<>>, sc.indegree, sc.prereq_to_dependents, ord)
    IN IF Len(out) # Cardinality(tasks_set)
       THEN [ok |-> FALSE, out |-> <<>>]
       ELSE [ok |-> TRUE, out |-> out]

-----------------------------------------------------------------------------
(* Dates and their text: db.py stores due as TEXT, YYYY-MM-DD *)

\* a date is <<year, month, day>>; a text is a sequence of character codes
Digit(n) == 48 + n
Dash == 45

\* date.isoformat(): year padded to four digits, month and day to two
isoformat(d) ==
    << Digit(d[1] \div 1000), Digit((d[1] \div 100) % 10),
       Digit((d[1] \div 10) % 10), Digit(d[1] % 10), Dash,
       Digit(d[2] \div 10), Digit(d[2] % 10), Dash,
       Digit(d[3] \div 10), Digit(d[3] % 10) >>

\* add_task: due_text = due.isoformat() if due else None
DueText(due) == IF due = Null THEN Null ELSE isoformat(due)

\* date.fromisoformat on a YYYY-MM-DD text
fromisoformat(t) ==
    << (t[1] - 48) * 1000 + (t[2] - 48) * 100 + (t[3] - 48) * 10 + (t[4] - 48),
       (t[6] - 48) * 10 + (t[7] - 48),
       (t[9] - 48) * 10 + (t[10] - 48) >>

_parse_due(due_text) == IF due_text = Null THEN Null ELSE fromisoformat(due_text)

\* SQLite's comparison of two TEXT values (BINARY collation): a < b
RECURSIVE TextLessFrom(_, _, _)
TextLessFrom(a, b, i) ==
    IF i > Len(a) THEN i <= Len(b)
    ELSE IF i > Len(b) THEN FALSE
    ELSE IF a[i] # b[i] THEN a[i] < b[i]
    ELSE TextLessFrom(a, b, i + 1)

TextLess(a, b) == TextLessFrom(a, b, 1)

-----------------------------------------------------------------------------
(* Task store: db.py *)

NoTasks == [i \in {} |-> Null]

\* a row of table tasks (title, description, tags and the timestamps are not modelled)
Row(status, priority, due) == [status |-> status, priority |-> priority, due |-> due]

InsertTask(tbl, id, row) == [i \in DOMAIN tbl \cup {id} |-> IF i = id THEN row ELSE tbl[i]]

\* _row_to_task
_row_to_task(id, row) ==
    [id |-> id, priority |-> row.priority, due |-> _parse_due(row.due), status |-> row.status]

\* get_task: Optional[Task], as a sequence of at most one Task
get_task(task_id) ==
    IF task_id \in DOMAIN tasks THEN <<_row_to_task(task_id, tasks[task_id])>> ELSE <<>>

\* SELECT task_id, depends_on_id FROM deps: the rows in primary-key order
RECURSIVE PairsInOrder(_)
PairsInOrder(S) ==
    IF S = {} THEN <<>>
    ELSE LET m == CHOOSE x \in S : \A y \in S :
                     x[1] < y[1] \/ (x[1] = y[1] /\ x[2] <= y[2])
         IN <<m>> \o PairsInOrder(S \ {m})

get_dependencies == PairsInOrder(deps)

\* the foreign keys of table deps (PRAGMA foreign_keys = ON in connect)
ForeignKeysOk(tbl, task_id, depends_on_id) ==
    task_id \in DOMAIN tbl /\ depends_on_id \in DOMAIN tbl

\* the empty interchange document
NoDoc == [tasks |-> <<>>, deps |-> <<>>]

\* what a step records: the operation, its status, its arguments, and for the
\* export and import commands the document of the file
Last(op, rc, a, b) == [op |-> op, rc |-> rc, a |-> a, b |-> b, doc |-> NoDoc]

\* add_task / cmd_add: INSERT with status 'todo'; the id is the AUTOINCREMENT rowid
add_task(priority, due) ==
    /\ seq < MaxTasks
    /\ tasks' = InsertTask(tasks, seq + 1, Row("todo", priority, DueText(due)))
    /\ seq' = seq + 1
    /\ last' = Last("add", 0, seq + 1, 0)
    /\ UNCHANGED <<deps, gEdges, gCall, procs>>

\* faulty variant of mark_done: the UPDATE flips the status, a done task is todo again
mark_done_Toggle(task_id) ==
    /\ tasks' = [i \in DOMAIN tasks |->
                    IF i = task_id
                    THEN [tasks[i] EXCEPT !.status = IF @ = "done" THEN "todo" ELSE "done"]
                    ELSE tasks[i]]
    /\ last' = Last("done", IF task_id \in DOMAIN tasks THEN 0 ELSE 1, task_id, 0)
    /\ UNCHANGED <<deps, seq, gEdges, gCall, procs>>

\* faulty variant of mark_done: the UPDATE has no WHERE clause
mark_done_AllRows(task_id) ==
    /\ tasks' = [i \in DOMAIN tasks |-> [tasks[i] EXCEPT !.status = "done"]]
    /\ last' = Last("done", IF tasks # NoTasks THEN 0 ELSE 1, task_id, 0)
    /\ UNCHANGED <<deps, seq, gEdges, gCall, procs>>

\* faulty variant of mark_done: the UPDATE is never committed
mark_done_NotCommitted(task_id) ==
    /\ tasks' = tasks
    /\ last' = Last("done", IF task_id \in DOMAIN tasks THEN 0 ELSE 1, task_id, 0)
    /\ UNCHANGED <<deps, seq, gEdges, gCall, procs>>

\* mark_done / cmd_done: UPDATE ... SET status = 'done' WHERE id = ?; rc 1 when no row matched
mark_done(task_id) ==
    /\ tasks' = [i \in DOMAIN tasks |->
                    IF i = task_id THEN [tasks[i] EXCEPT !.status = "done"] ELSE tasks[i]]
    /\ last' = Last("done", IF task_id \in DOMAIN tasks THEN 0 ELSE 1, task_id, 0)
    /\ UNCHANGED <<deps, seq, gEdges, gCall, procs>>

\* INSERT OR IGNORE INTO deps (task_id, depends_on_id): a pair already stored is
\* ignored, a foreign key violation raises (ok = FALSE) and stores nothing
InsertOrIgnoreDep(tbl, dset, task_id, depends_on_id) ==
    IF ForeignKeysOk(tbl, task_id, depends_on_id)
    THEN [ok |-> TRUE, deps |-> dset \cup {<<task_id, depends_on_id>>}]
    ELSE [ok |-> FALSE, deps |-> dset]

\* add_dependency, called on the store directly (as tests/test_db.py does)
add_dependency(task_id, depends_on_id) ==
    LET r == InsertOrIgnoreDep(tasks, deps, task_id, depends_on_id)
    IN /\ deps' = r.deps
       /\ last' = Last("add_dependency", IF r.ok THEN 0 ELSE 1, task_id, depends_on_id)
       /\ UNCHANGED <<tasks, seq, gEdges, gCall, procs>>

\* faulty variant of cmd_depend: the rejection of a cycle-forming edge does not return,
\* so the insert and the success status follow
cmd_depend_NoReturn(task_id, prereq_id, ord) ==
    /\ IF get_task(task_id) = <<>> \/ get_task(prereq_id) = <<>> THEN
            /\ deps' = deps
            /\ last' = Last("depend", 1, task_id, prereq_id)
       ELSE /\ deps' = InsertOrIgnoreDep(tasks, deps, task_id, prereq_id).deps
            /\ last' = Last("depend", 0, task_id, prereq_id)
    /\ UNCHANGED <<tasks, seq, gEdges, gCall, procs>>

\* cmd_depend: existence checks, the cycle pre-check on the edges read, the insert
cmd_depend(task_id, prereq_id, ord) ==
    /\ IF get_task(task_id) = <<>> THEN
            /\ deps' = deps
            /\ last' = Last("depend", 1, task_id, prereq_id)
       ELSE IF get_task(prereq_id) = <<>> THEN
            /\ deps' = deps
            /\ last' = Last("depend", 1, task_id, prereq_id)
       ELSE LET edges == get_dependencies
            IN IF would_create_cycle(edges, task_id, prereq_id, ord) THEN
                    /\ deps' = deps
                    /\ last' = Last("depend", 1, task_id, prereq_id)
               ELSE LET r == InsertOrIgnoreDep(tasks, deps, task_id, prereq_id)
                    IN /\ deps' = r.deps
                       /\ last' = Last("depend", IF r.ok THEN 0 ELSE 1, task_id, prereq_id)
    /\ UNCHANGED <<tasks, seq, gEdges, gCall, procs>>

\* import_json, the loop over data["tasks"]: t["id"] and t["title"] raise KeyError
\* when the object lacks the key (keys: the keys present among id and title);
\* INSERT with the given id; a second row with the same id violates the primary key
RECURSIVE ImportTasks(_, _, _)
ImportTasks(recs, i, tbl) ==
    IF i > Len(recs) THEN [ok |-> TRUE, tasks |-> tbl]
    ELSE IF "id" \notin recs[i].keys THEN [ok |-> FALSE, tasks |-> tbl]
    ELSE IF "title" \notin recs[i].keys THEN [ok |-> FALSE, tasks |-> tbl]
    ELSE IF recs[i].id \in DOMAIN tbl THEN [ok |-> FALSE, tasks |-> tbl]
    ELSE ImportTasks(recs, i + 1,
                     InsertTask(tbl, recs[i].id,
                                Row(recs[i].status, recs[i].priority, recs[i].due)))

\* import_json, the loop over data["deps"]: plain INSERT (primary key, foreign keys)
RECURSIVE ImportDeps(_, _, _, _)
ImportDeps(pairs, i, tbl, dset) ==
    IF i > Len(pairs) THEN [ok |-> TRUE, deps |-> dset]
    ELSE IF pairs[i] \in dset THEN [ok |-> FALSE, deps |-> dset]
    ELSE IF ~ForeignKeysOk(tbl, pairs[i][1], pairs[i][2]) THEN [ok |-> FALSE, deps |-> dset]
    ELSE ImportDeps(pairs, i + 1, tbl, dset \cup {pairs[i]})

RECURSIVE MaxId(_)
MaxId(recs) == IF recs = <<>> THEN 0 ELSE Max(Head(recs).id, MaxId(Tail(recs)))

\* faulty variant of ImportRun: the two DELETE statements are missing, the document's
\* rows are inserted next to the stored ones
ImportRun_NoDelete(data) ==
    LET t == ImportTasks(data.tasks, 1, tasks)
        d == IF t.ok THEN ImportDeps(data.deps, 1, t.tasks, deps) ELSE [ok |-> FALSE, deps |-> deps]
    IN [ok |-> t.ok /\ d.ok, tasks |-> t.tasks, deps |-> d.deps]

\* import_json, the statements inside the with block: DELETE both tables, then the
\* two loops; the tables as they stand when the block ends or a statement raises
ImportRun(data) ==
    LET t == ImportTasks(data.tasks, 1, NoTasks)
        d == IF t.ok THEN ImportDeps(data.deps, 1, t.tasks, {}) ELSE [ok |-> FALSE, deps |-> {}]
    IN [ok |-> t.ok /\ d.ok, tasks |-> t.tasks, deps |-> d.deps]

\* faulty variant of ImportStep: the transaction is committed although a statement raised
ImportStep_NoRollback(data, shown) ==
    LET r == ImportRun(data)
    IN /\ tasks' = r.tasks
       /\ deps' = r.deps
       /\ seq' = Max(seq, MaxId(data.tasks))
       /\ last' = [Last("import", IF r.ok THEN 0 ELSE 1, 0, 0) EXCEPT !.doc = shown]
       /\ UNCHANGED <<gEdges, gCall, procs>>

\* import_json: one transaction that connect() commits only when no statement
\* raised; a raised statement leaves the store as it was and the command fails.
\* shown is what the step records of the document.
ImportStep(data, shown) ==
    LET r == ImportRun(data)
    IN /\ IF r.ok
          THEN /\ tasks' = r.tasks
               /\ deps' = r.deps
               /\ seq' = Max(seq, MaxId(data.tasks))
               /\ last' = [Last("import", 0, 0, 0) EXCEPT !.doc = shown]
          ELSE /\ UNCHANGED store
               /\ last' = [Last("import", 1, 0, 0) EXCEPT !.doc = shown]
       /\ UNCHANGED <<gEdges, gCall, procs>>

import_json(data) == ImportStep(data, NoDoc)

\* cmd_import: the document read from the file is recorded with the step
cmd_import(data) == ImportStep(data, data)

\* the ids of a set in ascending order (ORDER BY id ASC)
RECURSIVE IdsInOrder(_)
IdsInOrder(S) ==
    IF S = {} THEN <<>>
    ELSE LET m == CHOOSE x \in S : \A y \in S : x <= y
         IN <<m>> \o IdsInOrder(S \ {m})

\* list_tasks (no status filter): the Task objects in id order
list_tasks ==
    LET ids == IdsInOrder(DOMAIN tasks)
    IN [i \in 1..Len(ids) |-> _row_to_task(ids[i], tasks[ids[i]])]

\* export_json, task_to_dict: the object written for a Task, due as ISO text
task_to_dict(t) ==
    [keys |-> {"id", "title"}, id |-> t.id, status |-> t.status, priority |-> t.priority,
     due |-> IF t.due = Null THEN Null ELSE isoformat(t.due)]

\* export_json: the document of the store
export_json ==
    [tasks |-> [i \in 1..Len(list_tasks) |-> task_to_dict(list_tasks[i])],
     deps |-> get_dependencies]

\* cmd_export: the document is written to the file; the store is not touched
cmd_export ==
    /\ last' = [Last("export", 0, 0, 0) EXCEPT !.doc = export_json]
    /\ UNCHANGED <<tasks, deps, seq, gEdges, gCall, procs>>

\* faulty variant of IsReadyRow: the join is on d.task_id instead of d.depends_on_id
IsReadyRow_JoinOnTask(id) ==
    /\ tasks[id].status = "todo"
    /\ ~ \E d \in deps : \E prereq \in DOMAIN tasks :
            /\ prereq = d[1]
            /\ d[1] = id
            /\ tasks[prereq].status # "done"

\* ready_tasks, the WHERE clause: status 'todo' and no deps row of the task
\* joined to a prerequisite row whose status is not 'done'
IsReadyRow(id) ==
    /\ tasks[id].status = "todo"
    /\ ~ \E d \in deps : \E prereq \in DOMAIN tasks :
            /\ prereq = d[2]
            /\ d[1] = id
            /\ tasks[prereq].status # "done"

\* ready_tasks, the ORDER BY: CASE WHEN due IS NULL THEN 1 ELSE 0 END,
\* due ASC, priority DESC, id ASC.  a sorts strictly before b
NullsLast(due) == IF due = Null THEN 1 ELSE 0

\* faulty variant of OrderByBefore: priority ASC instead of DESC
OrderByBefore_PriorityAsc(a, b) ==
    LET ra == tasks[a]
        rb == tasks[b]
    IN IF NullsLast(ra.due) # NullsLast(rb.due) THEN NullsLast(ra.due) < NullsLast(rb.due)
       ELSE IF ra.due # rb.due THEN TextLess(ra.due, rb.due)
       ELSE IF ra.priority # rb.priority THEN ra.priority < rb.priority
       ELSE a < b

OrderByBefore(a, b) ==
    LET ra == tasks[a]
        rb == tasks[b]
    IN IF NullsLast(ra.due) # NullsLast(rb.due) THEN NullsLast(ra.due) < NullsLast(rb.due)
       ELSE IF ra.due # rb.due THEN TextLess(ra.due, rb.due)
       ELSE IF ra.priority # rb.priority THEN ra.priority > rb.priority
       ELSE a < b

RECURSIVE OrderBy(_)
OrderBy(S) ==
    IF S = {} THEN <<>>
    ELSE LET m == CHOOSE x \in S : \A y \in S \ {x} : OrderByBefore(x, y)
         IN <<m>> \o OrderBy(S \ {m})

\* ready_tasks: the list of Task objects
ready_tasks ==
    LET ids == OrderBy({id \in DOMAIN tasks : IsReadyRow(id)})
    IN [i \in 1..Len(ids) |-> _row_to_task(ids[i], tasks[ids[i]])]

-----------------------------------------------------------------------------
(* Inputs *)

Priorities == {0, 1}
Dates == {<<2024, 9, 30>>, <<2024, 10, 1>>}
Dues == {Null} \cup Dates

\* interchange documents: up to two task objects and up to two deps pairs
DocIds == {1, 2}
DocRecords == {[keys |-> {"id", "title"}, id |-> i, status |-> st, priority |-> 0, due |-> Null] :
                   i \in DocIds, st \in {"todo", "done"}}
DocPairs == DocIds \X DocIds
UpToTwo(S) == {<<>>} \cup {<<a>> : a \in S} \cup {<<a, b>> : a, b \in S}
Docs == {[tasks |-> ts, deps |-> ds] : ts \in UpToTwo(DocRecords), ds \in UpToTwo(DocPairs)}

\* documents for the import command: task objects that lack id or title next to
\* complete ones, deps lists that repeat a pair or close a cycle
ImportRecords ==
    {[keys |-> {"id", "title"}, id |-> 1, status |-> "todo", priority |-> 0, due |-> Null],
     [keys |-> {"id", "title"}, id |-> 2, status |-> "done", priority |-> 0,
      due |-> isoformat(<<2024, 9, 30>>)],
     [keys |-> {"title"}, id |-> 0, status |-> "todo", priority |-> 0, due |-> Null],
     [keys |-> {"id"}, id |-> 2, status |-> "todo", priority |-> 0, due |-> Null]}
ImportPairLists == {<<>>, <<<<2, 1>>>>, <<<<2, 1>>, <<2, 1>>>>, <<<<2, 1>>, <<1, 2>>>>}
ImportDocs == {[tasks |-> ts, deps |-> ds] : ts \in UpToTwo(ImportRecords), ds \in ImportPairLists}

\* the processes that run a depend command side by side
Procs == {1, 2}

\* a depend command not yet started
Idle == [pc |-> "idle", task_id |-> 0, prereq_id |-> 0, edges |-> <<>>, rc |-> 0]
NoProcs == [p \in Procs |-> Idle]

EdgeLists == UNION {[1..n -> Nodes \X Nodes] : n \in 0..MaxEdges}

\* adjacency mappings over the node ids: any keys, any neighbour sets (a key's
\* neighbour need not be a key itself)
AdjMaps == UNION {[K -> SUBSET Nodes] : K \in SUBSET Nodes}

NoCall == [fn |-> "none", a |-> 0, b |-> 0, T |-> {}, ok |-> TRUE, ret |-> FALSE,
           out |-> <<>>, arg |-> <<>>, adj |-> <<>>]

-----------------------------------------------------------------------------
(* The store under the commands of cli.py *)

Init ==
    /\ tasks = NoTasks
    /\ deps = {}
    /\ seq = 0
    /\ last = Last("init", 0, 0, 0)
    /\ gEdges = <<>>
    /\ gCall = NoCall
    /\ procs = NoProcs

\* flowtask add TITLE: priority and due take the parser's defaults (0, None)
CmdAdd == add_task(0, Null)

CmdDone == \E id \in Ids : mark_done(id)

CmdDepend == \E t \in Ids, p \in Ids : cmd_depend(t, p, HashOrder(Ids))

CmdImport == \E data \in Docs : import_json(data)

Next == CmdAdd \/ CmdDone \/ CmdDepend \/ CmdImport

Spec == Init /\ [][Next]_vars

-----------------------------------------------------------------------------
(* The store under the functions of db.py, as tests/test_db.py calls them *)

DbAddTask == add_task(0, Null)

DbMarkDone == \E id \in Ids : mark_done(id)

DbAddDependency == \E t \in Ids, p \in Ids : add_dependency(t, p)

NextDb == DbAddTask \/ DbMarkDone \/ DbAddDependency

SpecDb == Init /\ [][NextDb]_vars

-----------------------------------------------------------------------------
(* The store with priorities and due dates: flowtask add -p N --due D *)

CmdAddWith == \E p \in Priorities, d \in Dues : add_task(p, d)

NextOrder == CmdAddWith \/ CmdDone \/ CmdDepend

SpecOrder == Init /\ [][NextOrder]_vars

-----------------------------------------------------------------------------
(* The store under export and import: flowtask export FILE, flowtask import FILE *)

CmdAddDue == \E d \in Dues : add_task(0, d)

CmdExport == cmd_export

\* import of a document written by hand or by another program
CmdImportDoc == \E data \in ImportDocs : cmd_import(data)

\* import of the file the export command has just written
CmdImportFile == last.op = "export" /\ cmd_import(last.doc)

NextImport == CmdAddDue \/ CmdDone \/ CmdExport \/ CmdImportDoc \/ CmdImportFile

SpecImport == Init /\ [][NextImport]_vars

-----------------------------------------------------------------------------
(* Two depend commands side by side.  cmd_depend opens a connection of its own
   for every db call (get_task, get_task, get_dependencies, add_dependency), each
   committed when it returns; nothing spans the read of the edges and the insert,
   so the calls of two commands interleave in any order. *)

Goto(p, pc) == procs' = [procs EXCEPT ![p].pc = pc]

Return(p, rc) == procs' = [procs EXCEPT ![p].pc = "returned", ![p].rc = rc]

\* flowtask depend TASK PREREQ is started: the arguments are parsed
DependStart(p) ==
    \E t \in Ids, q \in Ids :
        /\ procs[p].pc = "idle"
        /\ procs' = [procs EXCEPT ![p] = [Idle EXCEPT !.pc = "get_task", !.task_id = t,
                                                      !.prereq_id = q]]
        /\ UNCHANGED <<tasks, deps, seq, last, gEdges, gCall>>

\* if not db.get_task(path, task_id): return 1
DependGetTask(p) ==
    /\ procs[p].pc = "get_task"
    /\ IF get_task(procs[p].task_id) = <<>> THEN Return(p, 1) ELSE Goto(p, "get_prereq")
    /\ UNCHANGED <<tasks, deps, seq, last, gEdges, gCall>>

\* if not db.get_task(path, prereq_id): return 1
DependGetPrereq(p) ==
    /\ procs[p].pc = "get_prereq"
    /\ IF get_task(procs[p].prereq_id) = <<>> THEN Return(p, 1) ELSE Goto(p, "get_dependencies")
    /\ UNCHANGED <<tasks, deps, seq, last, gEdges, gCall>>

\* edges = db.get_dependencies(path)
DependReadEdges(p) ==
    /\ procs[p].pc = "get_dependencies"
    /\ procs' = [procs EXCEPT ![p].pc = "would_create_cycle", ![p].edges = get_dependencies]
    /\ UNCHANGED <<tasks, deps, seq, last, gEdges, gCall>>

\* if would_create_cycle(edges, task_id, prereq_id): return 1
DependCheck(p) ==
    /\ procs[p].pc = "would_create_cycle"
    /\ IF would_create_cycle(procs[p].edges, procs[p].task_id, procs[p].prereq_id,
                             HashOrder(Ids))
       THEN Return(p, 1)
       ELSE Goto(p, "add_dependency")
    /\ UNCHANGED <<tasks, deps, seq, last, gEdges, gCall>>

\* db.add_dependency(path, task_id, prereq_id); return 0
DependInsert(p) ==
    LET r == InsertOrIgnoreDep(tasks, deps, procs[p].task_id, procs[p].prereq_id)
    IN /\ procs[p].pc = "add_dependency"
       /\ deps' = r.deps
       /\ Return(p, IF r.ok THEN 0 ELSE 1)
       /\ UNCHANGED <<tasks, seq, last, gEdges, gCall>>

DependProc(p) ==
    \/ DependStart(p)
    \/ DependGetTask(p)
    \/ DependGetPrereq(p)
    \/ DependReadEdges(p)
    \/ DependCheck(p)
    \/ DependInsert(p)

NextConc == CmdAdd \/ \E p \in Procs : DependProc(p)

SpecConc == Init /\ [][NextConc]_vars

-----------------------------------------------------------------------------
(* The graph engine called on an edge list *)

InitGraph ==
    /\ tasks = NoTasks
    /\ deps = {}
    /\ seq = 0
    /\ last = Last("init", 0, 0, 0)
    /\ gEdges \in EdgeLists
    /\ gCall = NoCall
    /\ procs = NoProcs

CallWouldCreateCycle ==
    \E u \in Nodes, v \in Nodes :
        /\ gCall.fn = "none"
        /\ gCall' = [NoCall EXCEPT !.fn = "would_create_cycle", !.a = u, !.b = v,
                                   !.ret = would_create_cycle(gEdges, u, v, HashOrder(Nodes))]
        /\ UNCHANGED <<tasks, deps, seq, last, gEdges, procs>>

CallTopoSort ==
    \E T \in SUBSET Nodes : \E ord \in Perms(T) :
        LET r == topo_sort(T, gEdges, ord)
        IN /\ gCall.fn = "none"
           /\ gCall' = [NoCall EXCEPT !.fn = "topo_sort", !.T = T, !.ok = r.ok, !.out = r.out]
           /\ UNCHANGED <<tasks, deps, seq, last, gEdges, procs>>

CallBuildAdjacency ==
    /\ gCall.fn = "none"
    /\ gCall' = [NoCall EXCEPT !.fn = "build_adjacency", !.adj = build_adjacency(gEdges)]
    /\ UNCHANGED <<tasks, deps, seq, last, gEdges, procs>>

NextGraph == CallWouldCreateCycle \/ CallTopoSort \/ CallBuildAdjacency

SpecGraph == InitGraph /\ [][NextGraph]_vars

-----------------------------------------------------------------------------
(* has_path called on an adjacency mapping *)

\* arg is the mapping handed in, adj the mapping when the call has returned
CallHasPath ==
    \E m \in AdjMaps, start \in Nodes, target \in Nodes : \E ord \in Perms(Nodes) :
        LET r == HasPathCall(m, start, target, ord)
        IN /\ gCall.fn = "none"
           /\ gCall' = [NoCall EXCEPT !.fn = "has_path", !.a = start, !.b = target,
                                      !.arg = m, !.ret = r.ret, !.adj = r.adj]
           /\ UNCHANGED <<tasks, deps, seq, last, gEdges, procs>>

NextPath == CallHasPath

SpecPath == Init /\ [][NextPath]_vars

-----------------------------------------------------------------------------
(* Reference notions the properties are stated with *)

\* the set of pairs of an edge list
EdgeSet(edges) == {edges[i] : i \in DOMAIN edges}

NodesOf(E) == {e[1] : e \in E} \cup {e[2] : e \in E}

\* transitive closure of a finite relation
RECURSIVE Closure(_)
Closure(R) ==
    LET R2 == R \cup {<<p[1][1], p[2][2]>> : p \in {q \in R \X R : q[1][2] = q[2][1]}}
    IN IF R2 = R THEN R ELSE Closure(R2)

\* a directed path of one or more edges of E leads from a to b
PathIn(E, a, b) == <<a, b>> \in Closure(E)

\* no directed cycle, self-edges included
Acyclic(E) == \A n \in NodesOf(E) : ~PathIn(E, n, n)

-----------------------------------------------------------------------------
(* Properties *)

\* C1: in every reachable store state the stored edge set has no directed
\* cycle (self-edges included).  import_json inserts the document's deps
\* without any cycle check, so the statement fails after an import.
C1_StoreAcyclic == Acyclic(deps)

IsWccCall == gCall.fn = "would_create_cycle"

\* C2: for an acyclic edge set E and u # v with no path v -> u in E,
\* would_create_cycle(E, u, v) is false and E with (u, v) added is acyclic;
\* and whenever the call returns false on an acyclic E (the depend command then
\* inserts), the enlarged edge set is still acyclic.
C2_AcceptKeepsAcyclic ==
    (IsWccCall /\ Acyclic(EdgeSet(gEdges))) =>
        LET E == EdgeSet(gEdges)
            u == gCall.a
            v == gCall.b
        IN /\ (u # v /\ ~PathIn(E, v, u)) =>
                  (gCall.ret = FALSE /\ Acyclic(E \cup {<<u, v>>}))
           /\ gCall.ret = FALSE => Acyclic(E \cup {<<u, v>>})

\* C2 witness: an accepted edge that extends an acyclic graph of two edges
C2_Witness ==
    /\ IsWccCall
    /\ Cardinality(EdgeSet(gEdges)) >= 2
    /\ Acyclic(EdgeSet(gEdges))
    /\ gCall.a # gCall.b
    /\ gCall.a \in NodesOf(EdgeSet(gEdges))
    /\ gCall.b \in NodesOf(EdgeSet(gEdges))
    /\ <<gCall.a, gCall.b>> \notin EdgeSet(gEdges)
    /\ gCall.ret = FALSE

\* C3: for distinct u, v and any edge set E (cyclic or not),
\* would_create_cycle(E, u, v) is true exactly when v reaches u in E.
C3_TrueIffReachable ==
    (IsWccCall /\ gCall.a # gCall.b) =>
        (gCall.ret <=> PathIn(EdgeSet(gEdges), gCall.b, gCall.a))

\* C3 witness: an indirect path v -> x -> u in an acyclic E, answered true
C3_Witness ==
    /\ IsWccCall
    /\ gCall.a # gCall.b
    /\ Acyclic(EdgeSet(gEdges))
    /\ <<gCall.b, gCall.a>> \notin EdgeSet(gEdges)
    /\ PathIn(EdgeSet(gEdges), gCall.b, gCall.a)
    /\ gCall.ret = TRUE

\* C4: would_create_cycle(E, a, a) is true for every E and every a, whether or
\* not a occurs in E.
C4_SelfAlwaysRejected == (IsWccCall /\ gCall.a = gCall.b) => gCall.ret = TRUE

\* C4 witness: a self-dependency on a node that does not occur in a non-empty E
C4_Witness ==
    /\ IsWccCall
    /\ gCall.a = gCall.b
    /\ gEdges # <<>>
    /\ gCall.a \notin NodesOf(EdgeSet(gEdges))
    /\ gCall.ret = TRUE

\* C5: a depend step stores the edge (task, prereq) only when both tasks
\* exist and would_create_cycle on the edges read before the insert is false;
\* a missing task, a missing prerequisite, a self-dependency or a cycle-forming
\* edge gives a non-zero status, and every non-zero status leaves tasks and
\* edges as they were.
C5_DependStep ==
    last'.op = "depend" =>
        LET t == last'.a
            p == last'.b
            exist == t \in DOMAIN tasks /\ p \in DOMAIN tasks
            cyc == would_create_cycle(get_dependencies, t, p, HashOrder(Ids))
        IN /\ tasks' = tasks
           /\ deps' # deps => (exist /\ ~cyc /\ last'.rc = 0)
           /\ last'.rc = 0 => (exist /\ ~cyc /\ deps' = deps \cup {<<t, p>>})
           /\ (~exist \/ t = p \/ cyc \/ PathIn(deps, p, t)) => last'.rc # 0
           /\ last'.rc # 0 => deps' = deps

C5_DependOnlyWhenChecked == [][C5_DependStep]_vars

\* C5 witness: a depend command rejected because the prerequisite already
\* depends on the task
C5_Witness ==
    /\ last.op = "depend"
    /\ last.rc = 1
    /\ last.a # last.b
    /\ last.a \in DOMAIN tasks
    /\ last.b \in DOMAIN tasks
    /\ PathIn(deps, last.b, last.a)

ReadyIds == {ready_tasks[i].id : i \in DOMAIN ready_tasks}

PrereqsOf(t) == {d[2] : d \in {e \in deps : e[1] = t}}

\* C6: ready_tasks returns exactly the todo tasks all of whose prerequisite
\* edges point to done tasks, each once, and nothing else.
C6_ReadyExactly ==
    /\ ReadyIds = {t \in DOMAIN tasks :
                      /\ tasks[t].status = "todo"
                      /\ \A p \in PrereqsOf(t) :
                            p \in DOMAIN tasks /\ tasks[p].status = "done"}
    /\ Cardinality(DOMAIN ready_tasks) = Cardinality(ReadyIds)
    /\ \A i \in DOMAIN ready_tasks : ready_tasks[i].status = "todo"

\* C6 witness: a task is returned whose prerequisite is done (and not returned)
C6_Witness ==
    \E t \in ReadyIds : \E p \in PrereqsOf(t) :
        p # t /\ tasks[p].status = "done" /\ p \notin ReadyIds

\* a date is before another: year, then month, then day
DateBefore(a, b) ==
    \/ a[1] < b[1]
    \/ a[1] = b[1] /\ a[2] < b[2]
    \/ a[1] = b[1] /\ a[2] = b[2] /\ a[3] < b[3]

\* x is not greater than y under: dated before undated, earlier due first,
\* higher priority first, lower id first
NotAfter(x, y) ==
    IF (x.due = Null) # (y.due = Null) THEN x.due # Null
    ELSE IF x.due # y.due THEN DateBefore(x.due, y.due)
    ELSE IF x.priority # y.priority THEN x.priority > y.priority
    ELSE x.id <= y.id

\* C7: any two adjacent tasks of the ready_tasks sequence are in the order
\* dated before undated, earlier due date first, higher priority first, lower
\* id first.
C7_ReadySorted ==
    \A i \in DOMAIN ready_tasks :
        (i + 1) \in DOMAIN ready_tasks => NotAfter(ready_tasks[i], ready_tasks[i + 1])

\* C7 witness: the earlier due date comes first although its task has the
\* lower priority and the higher id
C7_Witness ==
    /\ Cardinality(DOMAIN ready_tasks) >= 2
    /\ ready_tasks[1].due # Null
    /\ ready_tasks[2].due # Null
    /\ DateBefore(ready_tasks[1].due, ready_tasks[2].due)
    /\ ready_tasks[1].priority < ready_tasks[2].priority
    /\ ready_tasks[1].id > ready_tasks[2].id

\* C8: after any step, a todo task with a prerequisite that is not done is
\* absent from ready_tasks; once a mark_done step leaves every prerequisite of
\* a todo task done, that task is present; and the task mark_done was applied
\* to is absent.
C8_Step ==
    \A t \in DOMAIN tasks' :
        /\ (\E p \in PrereqsOf(t)' : p \in DOMAIN tasks' /\ tasks'[p].status # "done")
               => t \notin ReadyIds'
        /\ (/\ last'.op = "done"
            /\ tasks'[t].status = "todo"
            /\ \A p \in PrereqsOf(t)' : tasks'[p].status = "done")
               => t \in ReadyIds'
        /\ (last'.op = "done" /\ last'.a = t)
               => (tasks'[t].status = "done" /\ t \notin ReadyIds')

C8_ReadyFollowsMarkDone == [][C8_Step]_vars

\* C8 witness: mark_done of a prerequisite has just made its dependent ready
C8_Witness ==
    /\ last.op = "done"
    /\ last.rc = 0
    /\ \E t \in ReadyIds : t # last.a /\ last.a \in PrereqsOf(t)

IsTopoCall == gCall.fn = "topo_sort"

\* the edges of E with both endpoints in T
Inside(T, E) == {e \in E : e[1] \in T /\ e[2] \in T}

\* the edge list names each pair once (it lists a set)
NoRepeat(edges) == Cardinality(EdgeSet(edges)) = Len(edges)

Pos(out, n) == CHOOSE i \in DOMAIN out : out[i] = n

\* C9: for a task set T and an edge set E (each pair listed once) whose
\* restriction to T is acyclic, topo_sort returns a permutation of T in which
\* every prerequisite stands strictly before every task depending on it.
C9_TopoOrder ==
    (/\ IsTopoCall
     /\ NoRepeat(gEdges)
     /\ Acyclic(Inside(gCall.T, EdgeSet(gEdges)))) =>
        /\ gCall.ok
        /\ Len(gCall.out) = Cardinality(gCall.T)
        /\ {gCall.out[i] : i \in DOMAIN gCall.out} = gCall.T
        /\ \A e \in Inside(gCall.T, EdgeSet(gEdges)) :
              Pos(gCall.out, e[2]) < Pos(gCall.out, e[1])

\* C9 witness: three tasks ordered under at least two edges
C9_Witness ==
    /\ IsTopoCall
    /\ NoRepeat(gEdges)
    /\ Cardinality(gCall.T) = 3
    /\ Cardinality(Inside(gCall.T, EdgeSet(gEdges))) >= 2
    /\ gCall.ok
    /\ Len(gCall.out) = 3

\* C10: topo_sort (on an edge set, each pair listed once) raises exactly when
\* the edges inside T contain a directed cycle, self-edges included, and what
\* it returns is never a partial sequence.
C10_RaisesIffCycle ==
    (IsTopoCall /\ NoRepeat(gEdges)) =>
        /\ ~gCall.ok <=> ~Acyclic(Inside(gCall.T, EdgeSet(gEdges)))
        /\ gCall.ok => Len(gCall.out) = Cardinality(gCall.T)

\* C10 witness: a raise on a cycle of two tasks, with a third task outside it
C10_Witness ==
    /\ IsTopoCall
    /\ NoRepeat(gEdges)
    /\ ~gCall.ok
    /\ Cardinality(gCall.T) = 3
    /\ \A e \in EdgeSet(gEdges) : e[1] # e[2]
    /\ \E n \in gCall.T : n \notin NodesOf(EdgeSet(gEdges))

\* the edge list without the pairs that have an endpoint outside T
InsideList(T, edges) == SelectSeq(edges, LAMBDA e : e[1] \in T /\ e[2] \in T)

\* C11: an edge with an endpoint outside T is ignored by topo_sort: the
\* outcome is one topo_sort has on the list without those edges, no node outside
\* T is returned, and when the edges inside T (each listed once) are acyclic the
\* call returns a permutation of T ordered by them alone, whatever cycles the
\* ignored edges form.
C11_OutsideEdgesIgnored ==
    IsTopoCall =>
        LET T == gCall.T
            inl == InsideList(T, gEdges)
        IN /\ \E ord \in Perms(T) :
                  topo_sort(T, inl, ord) = [ok |-> gCall.ok, out |-> gCall.out]
           /\ {gCall.out[i] : i \in DOMAIN gCall.out} \subseteq T
           /\ (NoRepeat(inl) /\ Acyclic(EdgeSet(inl))) =>
                  /\ gCall.ok
                  /\ {gCall.out[i] : i \in DOMAIN gCall.out} = T
                  /\ Len(gCall.out) = Cardinality(T)
                  /\ \A e \in EdgeSet(inl) : Pos(gCall.out, e[2]) < Pos(gCall.out, e[1])

\* C11 witness: two tasks ordered by their edge while the ignored edges, which
\* touch the task outside T, form a cycle
C11_Witness ==
    /\ IsTopoCall
    /\ gCall.ok
    /\ Cardinality(gCall.T) = 2
    /\ EdgeSet(InsideList(gCall.T, gEdges)) # {}
    /\ ~Acyclic(EdgeSet(gEdges) \ Inside(gCall.T, EdgeSet(gEdges)))

\* C12: the stored edges have no pair with task_id = prereq_id and both
\* endpoints of every stored edge are stored tasks (the primary key makes them
\* a set).  import_json and add_dependency store a pair (t, t) unchecked.
C12_EdgesWellFormed ==
    \A e \in deps : e[1] # e[2] /\ e[1] \in DOMAIN tasks /\ e[2] \in DOMAIN tasks

\* the table a document describes: one row per task object, under its id
DocTable(data) ==
    [i \in {data.tasks[k].id : k \in DOMAIN data.tasks} |->
        LET r == data.tasks[CHOOSE k \in DOMAIN data.tasks : data.tasks[k].id = i]
        IN Row(r.status, r.priority, r.due)]

\* C13: a successful import of a document D leaves exactly the tasks of D
\* (ids, statuses, fields) and exactly the pairs of D's deps in the store,
\* whatever it held before; and importing the document that export_json made
\* of the store succeeds and gives back the tasks and edges that were exported.
C13_Step ==
    /\ (last'.op = "import" /\ last'.rc = 0) =>
          /\ tasks' = DocTable(last'.doc)
          /\ Cardinality(DOMAIN tasks') = Len(last'.doc.tasks)
          /\ deps' = EdgeSet(last'.doc.deps)
    /\ (last.op = "export" /\ last'.op = "import" /\ last'.doc = last.doc) =>
          /\ last'.rc = 0
          /\ list_tasks' = list_tasks
          /\ deps' = deps

C13_ImportReplaces == [][C13_Step]_vars

\* C13 witness: the export of a store with an edge, a due date and a done task,
\* imported again: the store holds what the document holds
C13_Witness ==
    /\ last.op = "import" /\ last.rc = 0
    /\ last.doc = export_json
    /\ deps # {}
    /\ \E i \in DOMAIN tasks : tasks[i].due # Null /\ tasks[i].status = "done"

\* C17: of two depend commands run side by side neither writes between the
\* other's read of the edges and its insert, and under every interleaving of
\* their steps the stored edge set stays acyclic.  cmd_depend holds no
\* transaction from get_dependencies to add_dependency, so both commands can
\* check the same edges and both insert.
C17_DependsSerialised ==
    /\ \A p \in Procs :
          procs[p].pc = "add_dependency" => procs[p].edges = get_dependencies
    /\ Acyclic(deps)

\* the defects of a document that make its import fail part-way
DocDefect(data) ==
    \/ \E k \in DOMAIN data.tasks : data.tasks[k].keys # {"id", "title"}
    \/ \E j, k \in DOMAIN data.tasks : j # k /\ data.tasks[j].id = data.tasks[k].id
    \/ \E j, k \in DOMAIN data.deps : j # k /\ data.deps[j] = data.deps[k]
    \/ \E k \in DOMAIN data.deps : \E n \in {1, 2} :
           \A j \in DOMAIN data.tasks : data.tasks[j].id # data.deps[k][n]

\* C18: import_json is all-or-nothing: an import of a document with a task
\* object that lacks id or title, a repeated task id, a repeated dependency
\* pair or a dependency on a task that is not in the document fails, and a
\* failed import leaves tasks and edges exactly as they were (the clearing is
\* not kept).
C18_Step ==
    last'.op = "import" =>
        /\ DocDefect(last'.doc) => last'.rc # 0
        /\ last'.rc # 0 => (tasks' = tasks /\ deps' = deps /\ seq' = seq)

C18_ImportAllOrNothing == [][C18_Step]_vars

\* C18 witness: a store with two tasks and an edge that survived an import which
\* failed on its last statement, the repeated pair
C18_Witness ==
    /\ last.op = "import" /\ last.rc # 0
    /\ Cardinality(DOMAIN tasks) = 2
    /\ \E i \in DOMAIN tasks : tasks[i].due # Null
    /\ deps # {}
    /\ Len(last.doc.tasks) = 2
    /\ \A k \in DOMAIN last.doc.tasks : last.doc.tasks[k].keys = {"id", "title"}
    /\ last.doc.tasks[1].id # last.doc.tasks[2].id
    /\ Len(last.doc.deps) = 2 /\ last.doc.deps[1] = last.doc.deps[2]

\* C14: over add, depend and done steps a task is created with status todo,
\* a status changes only from todo to done and never back (mark_done on a done
\* task leaves it done), and no task is removed; only an import replaces tasks.
C14_Step ==
    last'.op \in {"add", "depend", "done"} =>
        /\ \A t \in DOMAIN tasks :
              /\ t \in DOMAIN tasks'
              /\ tasks'[t].status # tasks[t].status =>
                    (tasks[t].status = "todo" /\ tasks'[t].status = "done")
        /\ \A t \in DOMAIN tasks' \ DOMAIN tasks : tasks'[t].status = "todo"

C14_StatusOnlyForward == [][C14_Step]_vars

\* C14 witness: a done step on a task that is done, next to a task still todo
\* that has an edge
C14_Witness ==
    /\ last.op = "done" /\ last.rc = 0
    /\ tasks[last.a].status = "done"
    /\ \E t \in DOMAIN tasks : tasks[t].status = "todo"
    /\ deps # {}

\* C19: mark_done(id) changes the status of that task and nothing else: the
\* other tasks, the other fields of the task and all edges stay as they were;
\* when no task has the id the store stays as it was and the done command
\* returns a non-zero status.
C19_Step ==
    last'.op = "done" =>
        LET id == last'.a
        IN /\ deps' = deps
           /\ seq' = seq
           /\ DOMAIN tasks' = DOMAIN tasks
           /\ \A i \in DOMAIN tasks \ {id} : tasks'[i] = tasks[i]
           /\ id \in DOMAIN tasks =>
                 (last'.rc = 0 /\ tasks'[id] = [tasks[id] EXCEPT !.status = "done"])
           /\ id \notin DOMAIN tasks => (last'.rc # 0 /\ tasks' = tasks)

C19_MarkDoneFrame == [][C19_Step]_vars

\* C19 witness: a task marked done while another task with a due date and an
\* edge is still todo
C19_Witness ==
    /\ last.op = "done" /\ last.rc = 0
    /\ tasks[last.a].status = "done"
    /\ tasks[last.a].due # Null
    /\ \E t \in DOMAIN tasks \ {last.a} : tasks[t].status = "todo" /\ tasks[t].due # Null
    /\ deps # {}

\* the pairs (k, v) of an adjacency mapping: v is a neighbour of key k
AdjEdges(m) == {e \in (DOMAIN m) \X Nodes : e[2] \in m[e[1]]}

IsHasPathCall == gCall.fn = "has_path"

IsBuildCall == gCall.fn = "build_adjacency"

\* C16: the mapping build_adjacency returns has exactly the nodes that occur
\* as an endpoint as keys, and maps each key to exactly its direct
\* prerequisites (the empty set for a node that is only a prerequisite); being
\* a function of the edge set, it is the same however the list is ordered or
\* repeats a pair.
C16_AdjacencyOfEdgeSet ==
    IsBuildCall =>
        LET E == EdgeSet(gEdges)
        IN /\ DOMAIN gCall.adj = NodesOf(E)
           /\ \A k \in DOMAIN gCall.adj : gCall.adj[k] = {e[2] : e \in {f \in E : f[1] = k}}

\* C16 witness: a list that repeats a pair and names a node only as a prerequisite
C16_Witness ==
    /\ IsBuildCall
    /\ ~NoRepeat(gEdges)
    /\ \E k \in DOMAIN gCall.adj : gCall.adj[k] = {}
    /\ \E k \in DOMAIN gCall.adj : gCall.adj[k] # {}

\* C20: topo_sort depends only on the set of edges: whether or not a pair is
\* listed more than once, it raises exactly when the edges inside T contain a
\* cycle and otherwise returns a topological order of T.  The indegree counts
\* every listing of a pair while the dependents set holds it once.
C20_RepeatsDoNotMatter ==
    IsTopoCall =>
        /\ gCall.ok <=> Acyclic(Inside(gCall.T, EdgeSet(gEdges)))
        /\ gCall.ok =>
              /\ {gCall.out[i] : i \in DOMAIN gCall.out} = gCall.T
              /\ Len(gCall.out) = Cardinality(gCall.T)
              /\ \A e \in Inside(gCall.T, EdgeSet(gEdges)) :
                    Pos(gCall.out, e[2]) < Pos(gCall.out, e[1])

====
